---- MODULE Spec2Model ----
(***************************************************************************)
(* mini_log, module no_std_logger: the fixed-capacity logger LoggerNS      *)
(* (src/src/lib.rs).  The struct is a record of four parallel arrays, its  *)
(* methods are operators from the struct (and the arguments) to the struct *)
(* after the call and the value returned, and each action is one call of a *)
(* public method on the logger under observation.                          *)
(***************************************************************************)
EXTENDS Integers, Sequences, FiniteSets

(* --- bounds of the model ------------------------------------------------*)

\* pub const MAX_LOG_ENTRIES: usize = 1024, scaled down.
MAX_LOG_ENTRIES == 3
\* pub const MAX_LOG_LENGTH: usize = 1024, scaled down to the shortest array
\* that holds the placeholder "Marker Place".
MAX_LOG_LENGTH == 12
\* identifiers passed by callers are 0..MaxId
MaxId == 1

Slots == 0..(MAX_LOG_ENTRIES - 1)
Ids == 0..MaxId

(* --- values -------------------------------------------------------------*)

\* Option<T>
None == [some |-> FALSE, val |-> 0]
Some(v) == [some |-> TRUE, val |-> v]

\* Result<usize, OverflowError> and Result<(), OverflowError>; Ok(()) is Ok(0)
Ok(v) == [tag |-> "Ok", val |-> v]
BufferEntryOverflow == [tag |-> "BufferEntryOverflow", val |-> 0]
InvalidIndex(x) == [tag |-> "InvalidIndex", val |-> x]

LoggingTypeNS == {"Error", "Warning", "Log", "Marker"}

\* [0; 1024]
ZeroMessage == [i \in 0..(MAX_LOG_LENGTH - 1) |-> 0]

\* a text copied byte by byte into a zeroed array, as add_marker does with
\* its placeholder
RECURSIVE CopyBytes(_, _, _)
CopyBytes(arr, text, i) ==
    IF i >= Len(text) THEN arr
    ELSE CopyBytes([arr EXCEPT ![i] = text[i + 1]], text, i + 1)

\* "Marker Place".as_bytes()
message_default == <<77, 97, 114, 107, 101, 114, 32, 80, 108, 97, 99, 101>>

\* the message a caller passes with identifier x: "ID" and a character that
\* tells the identifiers apart, in a zero-padded array
MessageFor(x) == CopyBytes(ZeroMessage, <<73, 68, 48 + x>>, 0)

(* --- struct LoggerNS and its methods ------------------------------------*)

new_logger_ns ==
    [ log        |-> [i \in Slots |-> ZeroMessage],
      log_id     |-> [i \in Slots |-> 0],
      log_type   |-> [i \in Slots |-> "Marker"],
      free_slots |-> [i \in Slots |-> TRUE] ]

\* for i in 0..MAX_LOG_ENTRIES { if self.free_slots[i] { ...; return Some(i) } } None
RECURSIVE ScanFree(_, _)
ScanFree(self, i) ==
    IF i >= MAX_LOG_ENTRIES THEN [self |-> self, ret |-> None]
    ELSE IF self.free_slots[i]
         THEN [self |-> [self EXCEPT !.free_slots[i] = FALSE], ret |-> Some(i)]
         ELSE ScanFree(self, i + 1)

\* variant: the scan stops one slot short of the pool
RECURSIVE ScanFreeShort(_, _)
ScanFreeShort(self, i) ==
    IF i >= MAX_LOG_ENTRIES - 1 THEN [self |-> self, ret |-> None]
    ELSE IF self.free_slots[i]
         THEN [self |-> [self EXCEPT !.free_slots[i] = FALSE], ret |-> Some(i)]
         ELSE ScanFreeShort(self, i + 1)

get_next_avaliable_slot_short(self) == ScanFreeShort(self, 0)

\* variant: the scan runs from the highest index down
RECURSIVE ScanFreeDown(_, _)
ScanFreeDown(self, i) ==
    IF i < 0 THEN [self |-> self, ret |-> None]
    ELSE IF self.free_slots[i]
         THEN [self |-> [self EXCEPT !.free_slots[i] = FALSE], ret |-> Some(i)]
         ELSE ScanFreeDown(self, i - 1)

get_next_avaliable_slot_down(self) == ScanFreeDown(self, MAX_LOG_ENTRIES - 1)

\* variant: the slot found is returned without being marked occupied
get_next_avaliable_slot_unmarked(self) ==
    [self |-> self, ret |-> ScanFree(self, 0).ret]

get_next_avaliable_slot(self) == ScanFree(self, 0)

\* variant: the placeholder and the identifier 0 are stored whatever is passed
add_marker_always_default(self, message, id) ==
    LET got == get_next_avaliable_slot(self) IN
    IF got.ret.some
    THEN LET slot == got.ret.val IN
         [ self |-> [got.self EXCEPT !.log[slot] = CopyBytes(ZeroMessage, message_default, 0),
                                     !.log_id[slot] = 0,
                                     !.log_type[slot] = "Marker"],
           ret |-> Ok(slot) ]
    ELSE [self |-> got.self, ret |-> BufferEntryOverflow]

\* message and id are Option values.  The source types the message by
\* MAX_LOG_ENTRIES and the stored arrays by MAX_LOG_LENGTH; both are 1024
\* there, and every message of the model has MAX_LOG_LENGTH elements.
add_marker(self, message, id) ==
    LET m == IF message = None
             THEN Some(CopyBytes(ZeroMessage, message_default, 0))
             ELSE message
        d == IF id = None THEN Some(0) ELSE id
        got == get_next_avaliable_slot(self)
    IN IF got.ret.some
       THEN LET slot == got.ret.val IN
            [ self |-> [got.self EXCEPT !.log[slot] = m.val,
                                        !.log_id[slot] = d.val,
                                        !.log_type[slot] = "Marker"],
              ret |-> Ok(slot) ]
       ELSE [self |-> got.self, ret |-> BufferEntryOverflow]

\* variant: the record is written as a Warning
add_log_as_warning(self, message, id) ==
    LET got == get_next_avaliable_slot(self) IN
    IF got.ret.some
    THEN LET slot == got.ret.val IN
         [ self |-> [got.self EXCEPT !.log[slot] = message,
                                     !.log_id[slot] = id,
                                     !.log_type[slot] = "Warning"],
           ret |-> Ok(slot) ]
    ELSE [self |-> got.self, ret |-> BufferEntryOverflow]

add_log(self, message, id) ==
    LET got == get_next_avaliable_slot(self) IN
    IF got.ret.some
    THEN LET slot == got.ret.val IN
         [ self |-> [got.self EXCEPT !.log[slot] = message,
                                     !.log_id[slot] = id,
                                     !.log_type[slot] = "Log"],
           ret |-> Ok(slot) ]
    ELSE [self |-> got.self, ret |-> BufferEntryOverflow]

add_warning(self, message, id) ==
    LET got == get_next_avaliable_slot(self) IN
    IF got.ret.some
    THEN LET slot == got.ret.val IN
         [ self |-> [got.self EXCEPT !.log[slot] = message,
                                     !.log_id[slot] = id,
                                     !.log_type[slot] = "Warning"],
           ret |-> Ok(slot) ]
    ELSE [self |-> got.self, ret |-> BufferEntryOverflow]

\* variant: the record is written to the last slot when no slot is free
add_error_clobber(self, message, id) ==
    LET got == get_next_avaliable_slot(self)
        slot == IF got.ret.some THEN got.ret.val ELSE MAX_LOG_ENTRIES - 1
    IN [ self |-> [got.self EXCEPT !.log[slot] = message,
                                   !.log_id[slot] = id,
                                   !.log_type[slot] = "Error"],
         ret |-> IF got.ret.some THEN Ok(slot) ELSE BufferEntryOverflow ]

add_error(self, message, id) ==
    LET got == get_next_avaliable_slot(self) IN
    IF got.ret.some
    THEN LET slot == got.ret.val IN
         [ self |-> [got.self EXCEPT !.log[slot] = message,
                                     !.log_id[slot] = id,
                                     !.log_type[slot] = "Error"],
           ret |-> Ok(slot) ]
    ELSE [self |-> got.self, ret |-> BufferEntryOverflow]

\* a printer (the render callback) is a function from the slot it is called
\* on to the value it returns; the printers tried succeed everywhere or fail
\* on one slot, with either value of OverflowError
PrinterErrs == {BufferEntryOverflow, InvalidIndex(MaxId)}
Printers ==
    { [i \in Slots |-> Ok(0)] } \cup
    { [i \in Slots |-> IF i = k THEN e ELSE Ok(0)] : k \in Slots, e \in PrinterErrs }

\* one call of a callback: which one, on which slot, its three arguments and
\* what it returned (the crasher returns ())
Invocation(f, self, i, r) ==
    [ f |-> f, slot |-> i, message |-> self.log[i], id |-> self.log_id[i],
      type |-> self.log_type[i], ret |-> r ]

\* for i in 0..self.log.len() { ... }, then the terminal rule; calls is the
\* sequence of callback invocations made so far
RECURSIVE ParseLoop(_, _, _, _, _)
ParseLoop(self, printer, i, last_error, calls) ==
    IF i >= MAX_LOG_ENTRIES
    THEN [ self |-> self,
           ret |-> IF last_error.some THEN InvalidIndex(last_error.val) ELSE Ok(0),
           calls |-> calls ]
    ELSE IF ~self.free_slots[i]
         THEN IF self.log_type[i] \in {"Marker", "Log", "Warning"}
              THEN LET r == printer[i] IN
                   IF r.tag # "Ok"
                   THEN [ self |-> self, ret |-> BufferEntryOverflow,
                          calls |-> Append(calls, Invocation("printer", self, i, r)) ]
                   ELSE ParseLoop(self, printer, i + 1, last_error,
                                  Append(calls, Invocation("printer", self, i, r)))
              ELSE ParseLoop(self, printer, i + 1, Some(self.log_id[i]),
                             Append(calls, Invocation("crasher", self, i, Ok(0))))
         ELSE ParseLoop(self, printer, i + 1, last_error, calls)

\* variants of the pass, one deviation each:
\*   "first_fatal"  the first Error record's identifier is kept, not the last
\*   "no_abort"     a printer failure is remembered and the pass goes on
\*   "visit_free"   free slots are dispatched too
\*   "warn_crash"   Warning records go to the crasher
\*   "fatal_stop"   the pass returns at the first Error record
\*   "fatal_over_render"  a printer failure after an Error record returns
\*                  InvalidIndex of that record
\*   "propagate"    a printer failure returns the printer's own error
RECURSIVE ParseLoopVariant(_, _, _, _, _, _, _)
ParseLoopVariant(v, self, printer, i, last_error, failed, calls) ==
    IF i >= MAX_LOG_ENTRIES
    THEN [ self |-> self,
           ret |-> IF failed THEN BufferEntryOverflow
                   ELSE IF last_error.some THEN InvalidIndex(last_error.val)
                   ELSE Ok(0),
           calls |-> calls ]
    ELSE IF ~self.free_slots[i] \/ v = "visit_free"
         THEN IF self.log_type[i] \in ({"Marker", "Log", "Warning"}
                                        \ (IF v = "warn_crash" THEN {"Warning"} ELSE {}))
              THEN LET r == printer[i] IN
                   IF r.tag # "Ok" /\ v # "no_abort"
                   THEN [ self |-> self,
                          ret |-> IF v = "propagate" THEN r
                                  ELSE IF v = "fatal_over_render" /\ last_error.some
                                  THEN InvalidIndex(last_error.val)
                                  ELSE BufferEntryOverflow,
                          calls |-> Append(calls, Invocation("printer", self, i, r)) ]
                   ELSE ParseLoopVariant(v, self, printer, i + 1, last_error,
                                         failed \/ r.tag # "Ok",
                                         Append(calls, Invocation("printer", self, i, r)))
              ELSE IF v = "fatal_stop"
              THEN [ self |-> self, ret |-> InvalidIndex(self.log_id[i]),
                     calls |-> Append(calls, Invocation("crasher", self, i, Ok(0))) ]
              ELSE ParseLoopVariant(v, self, printer, i + 1,
                                    IF v = "first_fatal" /\ last_error.some
                                    THEN last_error ELSE Some(self.log_id[i]),
                                    failed,
                                    Append(calls, Invocation("crasher", self, i, Ok(0))))
         ELSE ParseLoopVariant(v, self, printer, i + 1, last_error, failed, calls)

parse_logger_first_fatal(self, printer) ==
    ParseLoopVariant("first_fatal", self, printer, 0, None, FALSE, <<>>)

parse_logger_no_abort(self, printer) ==
    ParseLoopVariant("no_abort", self, printer, 0, None, FALSE, <<>>)

parse_logger_visit_free(self, printer) ==
    ParseLoopVariant("visit_free", self, printer, 0, None, FALSE, <<>>)

parse_logger_warn_crash(self, printer) ==
    ParseLoopVariant("warn_crash", self, printer, 0, None, FALSE, <<>>)

parse_logger_fatal_stop(self, printer) ==
    ParseLoopVariant("fatal_stop", self, printer, 0, None, FALSE, <<>>)

parse_logger_fatal_over_render(self, printer) ==
    ParseLoopVariant("fatal_over_render", self, printer, 0, None, FALSE, <<>>)

parse_logger_propagate(self, printer) ==
    ParseLoopVariant("propagate", self, printer, 0, None, FALSE, <<>>)

\* variant: the slots are visited from the highest index down
RECURSIVE ParseLoopDown(_, _, _, _, _)
ParseLoopDown(self, printer, i, last_error, calls) ==
    IF i < 0
    THEN [ self |-> self,
           ret |-> IF last_error.some THEN InvalidIndex(last_error.val) ELSE Ok(0),
           calls |-> calls ]
    ELSE IF ~self.free_slots[i]
         THEN IF self.log_type[i] \in {"Marker", "Log", "Warning"}
              THEN LET r == printer[i] IN
                   IF r.tag # "Ok"
                   THEN [ self |-> self, ret |-> BufferEntryOverflow,
                          calls |-> Append(calls, Invocation("printer", self, i, r)) ]
                   ELSE ParseLoopDown(self, printer, i - 1, last_error,
                                      Append(calls, Invocation("printer", self, i, r)))
              ELSE ParseLoopDown(self, printer, i - 1, Some(self.log_id[i]),
                                 Append(calls, Invocation("crasher", self, i, Ok(0))))
         ELSE ParseLoopDown(self, printer, i - 1, last_error, calls)

parse_logger_down(self, printer) ==
    ParseLoopDown(self, printer, MAX_LOG_ENTRIES - 1, None, <<>>)

\* variant: the pass releases the slots it has dispatched
parse_logger_drain(self, printer) ==
    LET r == ParseLoop(self, printer, 0, None, <<>>) IN
    [ r EXCEPT !.self.free_slots =
          [i \in Slots |-> self.free_slots[i]
                            \/ \E k \in 1..Len(r.calls) : r.calls[k].slot = i] ]

parse_logger(self, printer) == ParseLoop(self, printer, 0, None, <<>>)

(* --- the logger under observation ---------------------------------------*)

VARIABLES
    logger,     \* the LoggerNS
    pre,        \* the LoggerNS as it was before the last call
    last,       \* the last call: the method and the value it returned
    cb,         \* the callback invocations made by the last call
    order,      \* the successful add_* calls, in the order they were made:
                \* the arguments passed and the slot returned
    lock,       \* the thread holding the lock around the logger, 0 when free
    pc,         \* where each thread is: "start", "locked", "appended", "done"
    before,     \* for each thread, the threads whose append had completed
                \* when it took the lock
    got,        \* for each thread, what its append returned (for the
                \* owner of the heap-based logger: what it received)
    data,       \* the shared counter behind its own lock: the holder of
                \* that lock (0 when free) and the count
    chan        \* the messages sent and not yet received

vars == <<logger, pre, last, cb, order, lock, pc, before, got, data, chan>>
tvars == <<lock, pc, before, got, data, chan>>

\* threads sharing one logger behind one lock
NumThreads == 2
Threads == 1..NumThreads
NotCalled == [tag |-> "NotCalled", val |-> 0]

InitThreads ==
    /\ lock = 0
    /\ pc = [t \in Threads |-> "start"]
    /\ before = [t \in Threads |-> {}]
    /\ got = [t \in Threads |-> NotCalled]
    /\ data = [lock |-> 0, val |-> 0]
    /\ chan = <<>>

Init ==
    /\ logger = new_logger_ns
    /\ pre = new_logger_ns
    /\ last = [op |-> "new_logger_ns", ret |-> Ok(0)]
    /\ cb = <<>>
    /\ order = <<>>
    /\ InitThreads

\* the bookkeeping of one add_* call whose outcome is r
Added(op, message, id, r) ==
    /\ logger' = r.self
    /\ pre' = logger
    /\ last' = [op |-> op, ret |-> r.ret]
    /\ cb' = <<>>
    /\ order' = IF r.ret.tag = "Ok"
                THEN Append(order, [op |-> op, message |-> message, id |-> id,
                                    slot |-> r.ret.val])
                ELSE order

\* the bookkeeping of one parse_logger call whose outcome is r
Parsed(r) ==
    /\ logger' = r.self
    /\ pre' = logger
    /\ last' = [op |-> "parse_logger", ret |-> r.ret]
    /\ cb' = r.calls
    /\ UNCHANGED order

(* --- one owner calling the public methods in any order ------------------*)

\* add_marker(None, None) and add_marker(Some(message), Some(id))
CallAddMarker ==
    /\ \/ Added("add_marker", None, None, add_marker(logger, None, None))
       \/ \E x \in Ids :
            Added("add_marker", Some(MessageFor(x)), Some(x),
                  add_marker(logger, Some(MessageFor(x)), Some(x)))
    /\ UNCHANGED tvars

CallAddLog ==
    /\ \E x \in Ids :
         Added("add_log", Some(MessageFor(x)), Some(x), add_log(logger, MessageFor(x), x))
    /\ UNCHANGED tvars

CallAddWarning ==
    /\ \E x \in Ids :
         Added("add_warning", Some(MessageFor(x)), Some(x),
               add_warning(logger, MessageFor(x), x))
    /\ UNCHANGED tvars

CallAddError ==
    /\ \E x \in Ids :
         Added("add_error", Some(MessageFor(x)), Some(x),
               add_error(logger, MessageFor(x), x))
    /\ UNCHANGED tvars

CallParseLogger ==
    /\ \E printer \in Printers : Parsed(parse_logger(logger, printer))
    /\ UNCHANGED tvars

Next ==
    \/ CallAddMarker
    \/ CallAddLog
    \/ CallAddWarning
    \/ CallAddError
    \/ CallParseLogger

Spec == Init /\ [][Next]_vars

(* --- threads sharing the logger behind one lock -------------------------*)

\* the owner has made k calls of add_marker(None, None) before the threads
\* are spawned
RECURSIVE Prefilled(_)
Prefilled(k) ==
    IF k = 0 THEN [logger |-> new_logger_ns, order |-> <<>>]
    ELSE LET p == Prefilled(k - 1)
             r == add_marker(p.logger, None, None)
         IN [ logger |-> r.self,
              order |-> Append(p.order, [op |-> "add_marker", message |-> None,
                                         id |-> None, slot |-> r.ret.val]) ]

InitMT ==
    /\ \E k \in 0..MAX_LOG_ENTRIES :
         /\ logger = Prefilled(k).logger
         /\ pre = Prefilled(k).logger
         /\ order = Prefilled(k).order
    /\ last = [op |-> "new_logger_ns", ret |-> Ok(0)]
    /\ cb = <<>>
    /\ InitThreads

\* lock(): blocks until the lock is free
Lock(t) ==
    /\ pc[t] = "start"
    /\ lock = 0
    /\ lock' = t
    /\ pc' = [pc EXCEPT ![t] = "locked"]
    /\ before' = [before EXCEPT ![t] = {u \in Threads : pc[u] = "done"}]
    /\ UNCHANGED <<logger, pre, last, cb, order, got, data, chan>>

\* the bookkeeping of thread t's add_* call whose outcome is r
ThreadAdded(t, op, message, id, r) ==
    /\ Added(op, message, id, r)
    /\ got' = [got EXCEPT ![t] = r.ret]
    /\ pc' = [pc EXCEPT ![t] = "appended"]
    /\ UNCHANGED <<lock, before, data, chan>>

\* one append by the thread holding the lock
ThreadAppend(t) ==
    /\ pc[t] = "locked"
    /\ lock = t
    /\ \/ ThreadAdded(t, "add_marker", None, None, add_marker(logger, None, None))
       \/ \E x \in Ids :
            ThreadAdded(t, "add_log", Some(MessageFor(x)), Some(x),
                        add_log(logger, MessageFor(x), x))
       \/ \E x \in Ids :
            ThreadAdded(t, "add_warning", Some(MessageFor(x)), Some(x),
                        add_warning(logger, MessageFor(x), x))
       \/ \E x \in Ids :
            ThreadAdded(t, "add_error", Some(MessageFor(x)), Some(x),
                        add_error(logger, MessageFor(x), x))

\* the guard is dropped
Unlock(t) ==
    /\ pc[t] = "appended"
    /\ lock = t
    /\ lock' = 0
    /\ pc' = [pc EXCEPT ![t] = "done"]
    /\ UNCHANGED <<logger, pre, last, cb, order, before, got, data, chan>>

\* the owner parses once every thread is joined
JoinedParse ==
    /\ \A t \in Threads : pc[t] = "done"
    /\ \E printer \in Printers : Parsed(parse_logger(logger, printer))
    /\ UNCHANGED tvars

NextMT ==
    \/ \E t \in Threads : Lock(t)
    \/ \E t \in Threads : ThreadAppend(t)
    \/ \E t \in Threads : Unlock(t)
    \/ JoinedParse

SpecMT == InitMT /\ [][NextMT]_vars

(* --- module std_logger: the heap-based Logger ---------------------------*)

INIT_MARK == "Logging Enabled"
INIT_MARK_ID == 0
TEST_LOG == "Testing Log"
TEST_LOG_ID == 1
TEST_WARN == "Testing Warning"
TEST_ERROR == "Testing Error"

\* entries a Logger may hold in the model (a Vec has no bound of its own)
MaxStdLog == 4

new_logger ==
    [ log      |-> <<INIT_MARK>>,
      log_id   |-> <<INIT_MARK_ID>>,
      log_type |-> <<"Marker">> ]

\* log and log_id are Option values
Logger_add_marker(self, log, log_id) ==
    LET log_str == IF log.some THEN log.val ELSE INIT_MARK
        log_id_val == IF log_id.some THEN log_id.val ELSE INIT_MARK_ID
    IN [ log      |-> Append(self.log, log_str),
         log_id   |-> Append(self.log_id, log_id_val),
         log_type |-> Append(self.log_type, "Marker") ]

\* variant: the entry replaces the last one
Logger_add_log_overwrite(self, log, log_id) ==
    [ log      |-> [self.log EXCEPT ![Len(self.log)] = log],
      log_id   |-> [self.log_id EXCEPT ![Len(self.log_id)] = log_id],
      log_type |-> [self.log_type EXCEPT ![Len(self.log_type)] = "Log"] ]

Logger_add_log(self, log, log_id) ==
    [ log      |-> Append(self.log, log),
      log_id   |-> Append(self.log_id, log_id),
      log_type |-> Append(self.log_type, "Log") ]

Logger_add_warning(self, log, log_id) ==
    [ log      |-> Append(self.log, log),
      log_id   |-> Append(self.log_id, log_id),
      log_type |-> Append(self.log_type, "Warning") ]

Logger_add_error(self, log, log_id) ==
    [ log      |-> Append(self.log, log),
      log_id   |-> Append(self.log_id, log_id),
      log_type |-> Append(self.log_type, "Error") ]

\* what parse_logger does at its end: it returns, or panics with the text
\* and the ID of an entry
Returned == [tag |-> "Ok", message |-> "", val |-> 0]
Panic(message, id) == [tag |-> "panic", message |-> message, val |-> id]

\* one line printed: by println! or eprintln!, with its prefix, the text and
\* (for all but a Marker) the ID
Line(f, prefix, message, id) ==
    [f |-> f, prefix |-> prefix, message |-> message, id |-> id]

\* the match of the loop body on entry i (counted from 1)
LineOf(self, i) ==
    IF self.log_type[i] = "Marker"
    THEN Line("println", "[MARKER]", self.log[i], None)
    ELSE IF self.log_type[i] = "Log"
    THEN Line("println", "[LOG]", self.log[i], Some(self.log_id[i]))
    ELSE IF self.log_type[i] = "Warning"
    THEN Line("eprintln", "[WARNING]", self.log[i], Some(self.log_id[i]))
    ELSE Line("eprintln", "[ERROR]", self.log[i], Some(self.log_id[i]))

\* variant: the panic is raised where the Error entry is met
RECURSIVE LoggerParseLoopPanicFirst(_, _, _)
LoggerParseLoopPanicFirst(self, i, calls) ==
    IF i > Len(self.log) THEN [ret |-> Returned, calls |-> calls]
    ELSE IF self.log_type[i] = "Error"
         THEN [ ret |-> Panic(self.log[i], self.log_id[i]),
                calls |-> Append(calls, LineOf(self, i)) ]
         ELSE LoggerParseLoopPanicFirst(self, i + 1, Append(calls, LineOf(self, i)))

Logger_parse_logger_panic_first(self) == LoggerParseLoopPanicFirst(self, 1, <<>>)

\* for i in 0..self.log.len() { ... }, then the panic; entries are counted
\* from 1 here, and last_error holds such an index
RECURSIVE LoggerParseLoop(_, _, _, _)
LoggerParseLoop(self, i, last_error, calls) ==
    IF i > Len(self.log)
    THEN [ ret |-> IF last_error.some
                   THEN Panic(self.log[last_error.val], self.log_id[last_error.val])
                   ELSE Returned,
           calls |-> calls ]
    ELSE LoggerParseLoop(self, i + 1,
                         IF self.log_type[i] = "Error" THEN Some(i) ELSE last_error,
                         Append(calls, LineOf(self, i)))

Logger_parse_logger(self) == LoggerParseLoop(self, 1, None, <<>>)

(* --- one owner calling the methods of a Logger --------------------------*)

InitStd ==
    /\ logger = new_logger
    /\ pre = new_logger
    /\ last = [op |-> "Logger::new_logger", ret |-> Returned]
    /\ cb = <<>>
    /\ order = <<>>
    /\ InitThreads

\* the bookkeeping of one call that adds an entry; a panic ends the program
StdAdded(op, message, id, self) ==
    /\ last.ret.tag # "panic"
    /\ Len(logger.log) < MaxStdLog
    /\ logger' = self
    /\ pre' = logger
    /\ last' = [op |-> op, ret |-> Returned]
    /\ cb' = <<>>
    /\ order' = Append(order, [op |-> op, message |-> message, id |-> id])
    /\ UNCHANGED tvars

StdAddMarker ==
    \/ StdAdded("Logger::add_marker", None, None, Logger_add_marker(logger, None, None))
    \/ \E x \in Ids :
         StdAdded("Logger::add_marker", Some(TEST_LOG), Some(x),
                  Logger_add_marker(logger, Some(TEST_LOG), Some(x)))

StdAddLog ==
    \E x \in Ids :
        StdAdded("Logger::add_log", Some(TEST_LOG), Some(x),
                 Logger_add_log(logger, TEST_LOG, x))

StdAddWarning ==
    \E x \in Ids :
        StdAdded("Logger::add_warning", Some(TEST_WARN), Some(x),
                 Logger_add_warning(logger, TEST_WARN, x))

StdAddError ==
    \E x \in Ids :
        StdAdded("Logger::add_error", Some(TEST_ERROR), Some(x),
                 Logger_add_error(logger, TEST_ERROR, x))

StdParseLogger ==
    /\ last.ret.tag # "panic"
    /\ LET r == Logger_parse_logger(logger) IN
       /\ last' = [op |-> "Logger::parse_logger", ret |-> r.ret]
       /\ cb' = r.calls
    /\ pre' = logger
    /\ UNCHANGED <<logger, order>>
    /\ UNCHANGED tvars

NextStd ==
    \/ StdAddMarker
    \/ StdAddLog
    \/ StdAddWarning
    \/ StdAddError
    \/ StdParseLogger

SpecStd == InitStd /\ [][NextStd]_vars

(* --- multi_threading_transfer_test: n threads and the owner -------------*)

\* let n = 3
n == 3
Workers == 1..n
\* the thread of the test itself
Owner == 0
\* a message is a clone of the Logger (and, for the record, who sent it)
Message(t, self) == [from |-> t, logger |-> self]
\* nothing received yet
NotReceived == [tag |-> "NotReceived", val |-> Message(0, new_logger)]

InitStdMT ==
    /\ logger = new_logger
    /\ pre = new_logger
    /\ last = [op |-> "Logger::new_logger", ret |-> Returned]
    /\ cb = <<>>
    /\ order = <<>>
    /\ lock = 0
    /\ pc = [t \in {Owner} \cup Workers |-> IF t = Owner THEN "spawn" ELSE "unspawned"]
    /\ before = [t \in {Owner} \cup Workers |-> {}]
    /\ got = [t \in {Owner} \cup Workers |-> NotReceived]
    /\ data = [lock |-> 0, val |-> 0]
    /\ chan = <<>>

\* for _ in 0..n { ... thread::spawn(..); handles.push(handle) }
OwnerSpawn ==
    /\ pc[Owner] = "spawn"
    /\ \E t \in Workers :
         /\ pc[t] = "unspawned"
         /\ \A u \in Workers : u < t => pc[u] # "unspawned"
         /\ pc' = [pc EXCEPT ![t] = "start",
                             ![Owner] = IF t = n THEN "recv" ELSE "spawn"]
    /\ UNCHANGED <<logger, pre, last, cb, order, lock, before, got, data, chan>>

\* rx.recv().unwrap(): blocks until a message is in the channel
OwnerRecv ==
    /\ pc[Owner] = "recv"
    /\ chan # <<>>
    /\ got' = [got EXCEPT ![Owner] = [tag |-> "Received", val |-> Head(chan)]]
    /\ chan' = Tail(chan)
    /\ pc' = [pc EXCEPT ![Owner] = "join"]
    /\ UNCHANGED <<logger, pre, last, cb, order, lock, before, data>>

\* for handle in handles { handle.join().unwrap() }: blocks until the
\* thread of the handle has ended
OwnerJoin ==
    /\ pc[Owner] = "join"
    /\ \E t \in Workers :
         /\ pc[t] = "done"
         /\ \A u \in Workers : u < t => pc[u] = "joined"
         /\ pc' = [pc EXCEPT ![t] = "joined",
                             ![Owner] = IF t = n THEN "finished" ELSE "join"]
    /\ UNCHANGED <<logger, pre, last, cb, order, lock, before, got, data, chan>>

\* let mut logger_guard = logger_cloned.lock().unwrap()
WorkerLockLogger(t) ==
    /\ pc[t] = "start"
    /\ lock = 0
    /\ lock' = t
    /\ pc' = [pc EXCEPT ![t] = "locked"]
    /\ UNCHANGED <<logger, pre, last, cb, order, before, got, data, chan>>

\* logger_guard.add_log(TEST_LOG, TEST_LOG_ID)
WorkerAddLog(t) ==
    /\ pc[t] = "locked"
    /\ logger' = Logger_add_log(logger, TEST_LOG, TEST_LOG_ID)
    /\ pre' = logger
    /\ last' = [op |-> "Logger::add_log", ret |-> Returned]
    /\ cb' = <<>>
    /\ order' = Append(order, [op |-> "Logger::add_log", message |-> Some(TEST_LOG),
                               id |-> Some(TEST_LOG_ID)])
    /\ pc' = [pc EXCEPT ![t] = "added"]
    /\ UNCHANGED <<lock, before, got, data, chan>>

\* let mut data_in_thread = data_cloned.lock().unwrap()
WorkerLockData(t) ==
    /\ pc[t] = "added"
    /\ data.lock = 0
    /\ data' = [data EXCEPT !.lock = t]
    /\ pc' = [pc EXCEPT ![t] = "data_locked"]
    /\ UNCHANGED <<logger, pre, last, cb, order, lock, before, got, chan>>

\* *data_in_thread += 1
WorkerIncrement(t) ==
    /\ pc[t] = "data_locked"
    /\ data' = [data EXCEPT !.val = @ + 1]
    /\ pc' = [pc EXCEPT ![t] = "incremented"]
    /\ UNCHANGED <<logger, pre, last, cb, order, lock, before, got, chan>>

\* variant: the comparison is with n + 1
IsLast_off_by_one(count) == count = n + 1

\* *data_in_thread == n
IsLast(count) == count = n

\* if *data_in_thread == n { tx_cloned.send(logger_guard.clone()).unwrap() }
WorkerSendIfLast(t) ==
    /\ pc[t] = "incremented"
    /\ chan' = IF IsLast(data.val)
               THEN Append(chan, Message(t, logger))
               ELSE chan
    /\ pc' = [pc EXCEPT ![t] = "checked"]
    /\ UNCHANGED <<logger, pre, last, cb, order, lock, before, got, data>>

\* end of the closure: data_in_thread is dropped
WorkerDropData(t) ==
    /\ pc[t] = "checked"
    /\ data' = [data EXCEPT !.lock = 0]
    /\ pc' = [pc EXCEPT ![t] = "data_dropped"]
    /\ UNCHANGED <<logger, pre, last, cb, order, lock, before, got, chan>>

\* end of the closure: logger_guard is dropped, the thread ends
WorkerDropLogger(t) ==
    /\ pc[t] = "data_dropped"
    /\ lock' = 0
    /\ pc' = [pc EXCEPT ![t] = "done"]
    /\ UNCHANGED <<logger, pre, last, cb, order, before, got, data, chan>>

NextStdMT ==
    \/ OwnerSpawn
    \/ OwnerRecv
    \/ OwnerJoin
    \/ \E t \in Workers : WorkerLockLogger(t)
    \/ \E t \in Workers : WorkerAddLog(t)
    \/ \E t \in Workers : WorkerLockData(t)
    \/ \E t \in Workers : WorkerIncrement(t)
    \/ \E t \in Workers : WorkerSendIfLast(t)
    \/ \E t \in Workers : WorkerDropData(t)
    \/ \E t \in Workers : WorkerDropLogger(t)

\* a thread that can take a step is eventually scheduled
SpecStdMT == InitStdMT /\ [][NextStdMT]_vars /\ WF_vars(NextStdMT)

(* --- the properties ------------------------------------------------------*)

Occupied(self) == {i \in Slots : ~self.free_slots[i]}
IsAdd == last.op \in {"add_marker", "add_log", "add_warning", "add_error"}
IsParse == last.op = "parse_logger"
\* no printer call of the last pass returned an error
RenderNeverFailed == \A k \in 1..Len(cb) : cb[k].ret.tag = "Ok"
\* the identifier a successful call stored: the one passed, 0 when omitted
PassedId(call) == IF call.id.some THEN call.id.val ELSE 0
\* the Error records among the occupied slots
Fatal(self) == {i \in Occupied(self) : self.log_type[i] = "Error"}
Max(S) == CHOOSE m \in S : \A k \in S : k <= m

\* C1 (capacity): the occupied slots never exceed MAX_LOG_ENTRIES; a call of
\* add_* fails only once MAX_LOG_ENTRIES calls have succeeded (so the first
\* MAX_LOG_ENTRIES calls all succeed), it then fails with BufferEntryOverflow,
\* and no call succeeds after MAX_LOG_ENTRIES successes (so every later call
\* fails).
C1_Capacity ==
    /\ Cardinality(Occupied(logger)) <= MAX_LOG_ENTRIES
    /\ Cardinality(Occupied(logger)) = Len(order)
    /\ Len(order) <= MAX_LOG_ENTRIES
    /\ IsAdd =>
         /\ last.ret.tag \in {"Ok", "BufferEntryOverflow"}
         /\ last.ret.tag = "BufferEntryOverflow" =>
              /\ Len(order) = MAX_LOG_ENTRIES
              /\ Cardinality(Occupied(pre)) = MAX_LOG_ENTRIES
         /\ last.ret.tag = "Ok" => Cardinality(Occupied(pre)) = Len(order) - 1

C1_Witness ==
    /\ IsAdd
    /\ last.ret = BufferEntryOverflow
    /\ Len(order) = MAX_LOG_ENTRIES

\* C2 (lowest index first): a call of add_* made while a slot is free
\* succeeds, returns the lowest free index, and marks that slot and no other
\* occupied.
C2_LowestIndexFirst ==
    IsAdd /\ (\E i \in Slots : pre.free_slots[i]) =>
        /\ last.ret.tag = "Ok"
        /\ pre.free_slots[last.ret.val]
        /\ \A j \in Slots : j < last.ret.val => ~pre.free_slots[j]
        /\ logger.free_slots = [pre.free_slots EXCEPT ![last.ret.val] = FALSE]
        /\ order[Len(order)].slot = last.ret.val

C2_Witness ==
    /\ IsAdd
    /\ last.ret = Ok(1)
    /\ pre.free_slots[1] /\ pre.free_slots[2]
    /\ ~pre.free_slots[0]

\* C3 (dispatch order): after a pass in which no printer call failed, the
\* identifiers passed to the callbacks, printer and crasher together, are the
\* identifiers appended, in the order they were appended.
C3_DispatchOrder ==
    IsParse /\ RenderNeverFailed =>
        [k \in 1..Len(cb) |-> cb[k].id] = [k \in 1..Len(order) |-> PassedId(order[k])]

C3_Witness ==
    /\ IsParse /\ RenderNeverFailed
    /\ Len(order) = MAX_LOG_ENTRIES
    /\ PassedId(order[1]) # PassedId(order[2])
    /\ \E k \in 1..Len(cb) : cb[k].f = "crasher"
    /\ \E k \in 1..Len(cb) : cb[k].f = "printer"

C5_NoFatalPass ==
    IsParse /\ RenderNeverFailed /\ Fatal(pre) = {} =>
        /\ last.ret = Ok(0)
        /\ \A k \in 1..Len(cb) : cb[k].f = "printer"
        /\ \A i \in Occupied(pre) :
             Cardinality({k \in 1..Len(cb) : cb[k].slot = i}) = 1
        /\ Len(cb) = Cardinality(Occupied(pre))

C5_Witness ==
    /\ IsParse /\ RenderNeverFailed /\ Fatal(pre) = {}
    /\ Cardinality(Occupied(pre)) = 2
    /\ {pre.log_type[i] : i \in Occupied(pre)} = {"Marker", "Warning"}
    /\ last.ret = Ok(0)

\* C6 (render failure aborts): when a printer call fails on the record at
\* slot i, that call is the last callback of the pass, no callback was made
\* for a slot above i, and parse_logger has returned an error.
C6_RenderFailureAborts ==
    IsParse =>
        \A k \in 1..Len(cb) :
            cb[k].ret.tag # "Ok" =>
                /\ k = Len(cb)
                /\ \A j \in 1..Len(cb) : cb[j].slot <= cb[k].slot
                /\ last.ret.tag # "Ok"

C6_Witness ==
    /\ IsParse
    /\ Len(cb) = 1
    /\ cb[1].slot = 0
    /\ cb[1].ret.tag # "Ok"
    /\ Occupied(pre) = Slots
    /\ pre.log_type[1] = "Error"

\* C7 (exhaustion leaves the state unchanged): a call of add_* made with every
\* slot occupied returns BufferEntryOverflow and leaves log, log_id, log_type
\* and free_slots as they were, so that a pass afterwards makes the callback
\* calls a pass before it would have made.
C7_ExhaustionUnchanged ==
    IsAdd /\ Occupied(pre) = Slots =>
        /\ last.ret = BufferEntryOverflow
        /\ logger.log = pre.log
        /\ logger.log_id = pre.log_id
        /\ logger.log_type = pre.log_type
        /\ logger.free_slots = pre.free_slots
        /\ \A printer \in Printers :
             parse_logger(logger, printer).calls = parse_logger(pre, printer).calls

C7_Witness ==
    /\ last.op = "add_error"
    /\ Occupied(pre) = Slots
    /\ last.ret = BufferEntryOverflow
    /\ \E i \in Slots : pre.log_type[i] # "Error"

\* C8 (parse is read-only): whatever parse_logger returned, log, log_id,
\* log_type and free_slots are after the pass what they were before it.
C8_ParseReadOnly ==
    IsParse =>
        /\ logger.log = pre.log
        /\ logger.log_id = pre.log_id
        /\ logger.log_type = pre.log_type
        /\ logger.free_slots = pre.free_slots

C8_Witness ==
    /\ IsParse
    /\ last.ret = BufferEntryOverflow
    /\ Len(cb) = 2
    /\ cb[1].f = "crasher"
    /\ Cardinality(Occupied(logger)) = 2

\* C9 (only occupied slots are dispatched): no callback of a pass is made for
\* a free slot; a pass over a pool nothing was appended to makes no callback
\* and returns Ok(()); a pass in which no printer call failed makes as many
\* callback calls as appends have succeeded.
C9_OnlyOccupiedDispatched ==
    IsParse =>
        /\ \A k \in 1..Len(cb) : ~pre.free_slots[cb[k].slot]
        /\ order = <<>> => cb = <<>> /\ last.ret = Ok(0)
        /\ RenderNeverFailed => Len(cb) = Len(order)

C9_Witness ==
    /\ IsParse /\ RenderNeverFailed
    /\ Len(order) = 2
    /\ Len(cb) = 2
    /\ \E i \in Slots : pre.free_slots[i]

\* C10 (serialized appends): with the appends of the threads made under the
\* one lock, no two successful appends were given the same slot, an append
\* completed before another took the lock was given the lower slot, and a
\* pass in which no printer call failed dispatches it first.
C10_SerializedAppends ==
    /\ \A i, j \in 1..Len(order) : i # j => order[i].slot # order[j].slot
    /\ \A t, u \in Threads :
         t # u /\ got[t].tag = "Ok" /\ got[u].tag = "Ok" => got[t].val # got[u].val
    /\ \A b \in Threads : \A a \in before[b] :
         got[a].tag = "Ok" /\ got[b].tag = "Ok" =>
            /\ got[a].val < got[b].val
            /\ IsParse /\ RenderNeverFailed =>
                 \E i, j \in 1..Len(cb) :
                     i < j /\ cb[i].slot = got[a].val /\ cb[j].slot = got[b].val

C10_Witness ==
    /\ IsParse /\ RenderNeverFailed
    /\ 2 \in before[1]
    /\ got[2] = Ok(1)
    /\ got[1] = Ok(2)

\* the records of the occupied slots of self
Records(self) ==
    [i \in Occupied(self) |->
        [message |-> self.log[i], id |-> self.log_id[i], type |-> self.log_type[i]]]

Placeholder ==
    [i \in 0..(MAX_LOG_LENGTH - 1) |->
        IF i = 0 THEN 77 ELSE IF i = 1 THEN 97 ELSE IF i = 2 THEN 114
        ELSE IF i = 3 THEN 107 ELSE IF i = 4 THEN 101 ELSE IF i = 5 THEN 114
        ELSE IF i = 6 THEN 32 ELSE IF i = 7 THEN 80 ELSE IF i = 8 THEN 108
        ELSE IF i = 9 THEN 97 ELSE IF i = 10 THEN 99 ELSE IF i = 11 THEN 101
        ELSE 0]
\* the message a successful call stored: the one passed, the placeholder
\* when omitted
PassedMessage(call) == IF call.message.some THEN call.message.val ELSE Placeholder

\* C12 (default marker): a successful add_marker stores a Marker record at the
\* slot it returns; called with (None, None) the record has identifier 0 and
\* the placeholder message, called with a message and an identifier it has
\* exactly those.
C12_DefaultMarker ==
    last.op = "add_marker" /\ last.ret.tag = "Ok" =>
        LET slot == last.ret.val
            call == order[Len(order)]
        IN /\ call.op = "add_marker" /\ call.slot = slot
           /\ logger.log_type[slot] = "Marker"
           /\ ~logger.free_slots[slot]
           /\ call.id = None /\ call.message = None =>
                /\ logger.log_id[slot] = 0
                /\ logger.log[slot] = Placeholder
           /\ call.id.some /\ call.message.some =>
                /\ logger.log_id[slot] = call.id.val
                /\ logger.log[slot] = call.message.val

C12_Witness ==
    /\ last.op = "add_marker"
    /\ last.ret = Ok(1)
    /\ order[2].id = None /\ order[2].message = None
    /\ logger.log[1] = Placeholder
    /\ pre.log[1] = ZeroMessage
    /\ logger.log_type[0] = "Error"

\* the pass with a supplied message and identifier is reached too
C12_WitnessSupplied ==
    /\ last.op = "add_marker"
    /\ last.ret.tag = "Ok"
    /\ order[Len(order)].id = Some(1)
    /\ logger.log[last.ret.val] = MessageFor(1)

\* the slots for which the last pass called callback f
Dispatched(f) == {cb[k].slot : k \in {j \in 1..Len(cb) : cb[j].f = f}}
\* how many callback calls the last pass made for slot i
TimesDispatched(i) == Cardinality({k \in 1..Len(cb) : cb[k].slot = i})

\* C15 (fatal records do not stop the scan): the printer is never called for
\* an Error record nor the crasher for another; in a pass in which no printer
\* call failed the crasher is called exactly once for every occupied Error
\* record and the records after one are dispatched too; InvalidIndex is
\* returned only by a pass that has dispatched every occupied slot.
C15_FatalDoesNotStop ==
    IsParse =>
        /\ \A k \in 1..Len(cb) : cb[k].f = "crasher" <=> cb[k].type = "Error"
        /\ RenderNeverFailed =>
             /\ Dispatched("crasher") = Fatal(pre)
             /\ Dispatched("printer") = Occupied(pre) \ Fatal(pre)
             /\ \A i \in Occupied(pre) : TimesDispatched(i) = 1
        /\ last.ret.tag = "InvalidIndex" =>
             Dispatched("crasher") \cup Dispatched("printer") = Occupied(pre)

C15_Witness ==
    /\ IsParse /\ RenderNeverFailed
    /\ Len(cb) = 3
    /\ cb[1].f = "crasher" /\ cb[2].f = "printer" /\ cb[3].f = "crasher"
    /\ last.ret.tag = "InvalidIndex"

\* the kind each entry point writes
KindOf(op) ==
    IF op = "add_marker" THEN "Marker"
    ELSE IF op = "add_log" THEN "Log"
    ELSE IF op = "add_warning" THEN "Warning"
    ELSE "Error"

\* C16 (records are immutable once written): a successful append changes
\* nothing at any index but the one it returns, and at every moment the slot
\* each successful append returned holds the message and identifier passed to
\* that append and the kind of its entry point, whatever appends and passes
\* have followed.
C16_RecordsImmutable ==
    /\ \A k \in 1..Len(order) :
         /\ ~logger.free_slots[order[k].slot]
         /\ logger.log[order[k].slot] = PassedMessage(order[k])
         /\ logger.log_id[order[k].slot] = PassedId(order[k])
         /\ logger.log_type[order[k].slot] = KindOf(order[k].op)
    /\ IsAdd /\ last.ret.tag = "Ok" =>
         \A i \in Slots \ {last.ret.val} :
            /\ logger.log[i] = pre.log[i]
            /\ logger.log_id[i] = pre.log_id[i]
            /\ logger.log_type[i] = pre.log_type[i]
            /\ logger.free_slots[i] = pre.free_slots[i]

C16_Witness ==
    /\ IsParse
    /\ Len(order) = 3
    /\ order[1].op = "add_log" /\ order[1].id = Some(1)
    /\ order[2].op = "add_warning"
    /\ order[3].op = "add_error"
    /\ logger.log_type[0] = "Log" /\ logger.log_id[0] = 1
    /\ logger.log[0] = MessageFor(1)

\* C17 (contiguous prefix): the occupied slots are exactly the indices below
\* the number of appends that have succeeded, which is at most
\* MAX_LOG_ENTRIES, and the j-th successful append returned index j - 1.
C17_ContiguousPrefix ==
    /\ Len(order) \in 0..MAX_LOG_ENTRIES
    /\ Occupied(logger) = {i \in Slots : i < Len(order)}
    /\ \A j \in 1..Len(order) : order[j].slot = j - 1

C17_Witness ==
    /\ IsAdd
    /\ last.ret = Ok(1)
    /\ Len(order) = 2
    /\ Occupied(logger) = {0, 1}

\* C18 (render failure over an earlier fatal): a pass in which a printer call
\* failed returns BufferEntryOverflow, also when the crasher was called for
\* an Error record at a lower index; InvalidIndex is returned only by a pass
\* that reached the end of the pool with no printer call failing.
C18_RenderFailureOverFatal ==
    IsParse =>
        /\ ~RenderNeverFailed => last.ret = BufferEntryOverflow
        /\ last.ret.tag = "InvalidIndex" =>
             /\ RenderNeverFailed
             /\ Len(cb) = Cardinality(Occupied(pre))

C18_Witness ==
    /\ IsParse
    /\ Len(cb) = 2
    /\ cb[1].f = "crasher" /\ cb[1].slot = 0
    /\ cb[2].f = "printer" /\ cb[2].slot = 1 /\ cb[2].ret.tag # "Ok"
    /\ last.ret = BufferEntryOverflow

\* C19 (the fatal-observed result is unambiguous): parse_logger returns
\* InvalidIndex(x) only when no printer call failed and the occupied Error
\* record at the highest index has identifier x; when a printer call
\* returns an error, InvalidIndex included, parse_logger returns
\* BufferEntryOverflow.
C19_FatalResultUnambiguous ==
    IsParse =>
        /\ last.ret.tag = "InvalidIndex" =>
             /\ RenderNeverFailed
             /\ Fatal(pre) # {}
             /\ last.ret.val = pre.log_id[Max(Fatal(pre))]
        /\ \A k \in 1..Len(cb) :
             cb[k].ret.tag # "Ok" => last.ret = BufferEntryOverflow

C19_Witness ==
    /\ IsParse
    /\ Len(cb) = 1
    /\ cb[1].ret = InvalidIndex(MaxId)
    /\ last.ret = BufferEntryOverflow
    /\ Fatal(pre) = {}

\* C20 (parse is repeatable): the last pass called the callbacks for each
\* slot at most once, in ascending order; a second pass made now with a
\* printer that behaves as it did in the last one makes the same callback
\* calls and returns the same value.
C20_ParseRepeatable ==
    IsParse =>
        /\ Len(cb) <= MAX_LOG_ENTRIES
        /\ \A j, k \in 1..Len(cb) : j < k => cb[j].slot < cb[k].slot
        /\ \E printer \in Printers :
             /\ parse_logger(pre, printer).calls = cb
             /\ parse_logger(pre, printer).ret = last.ret
        /\ \A printer \in Printers :
             parse_logger(pre, printer).calls = cb =>
                /\ parse_logger(logger, printer).calls = cb
                /\ parse_logger(logger, printer).ret = last.ret

C20_Witness ==
    /\ IsParse
    /\ Len(cb) = 2
    /\ cb[1].f = "printer" /\ cb[1].ret.tag = "Ok"
    /\ cb[2].f = "crasher"
    /\ last.ret.tag = "InvalidIndex"
    /\ Cardinality(Occupied(logger)) = 2

\* the Error entries of a Logger
StdErrors(self) == {i \in 1..Len(self.log) : self.log_type[i] = "Error"}
\* the calls of add_error made so far
ErrorCalls == {k \in 1..Len(order) : order[k].op = "Logger::add_error"}

\* C13 (terminal rule of the heap-based logger): std_logger's parse_logger
\* panics exactly when the log holds an Error entry, which is when add_error
\* was called; panicking or not, it has first printed every entry, the
\* initial marker included, in order; the panic reports the last Error
\* entry, the one the last add_error call passed.
C13_StdTerminalRule ==
    last.op = "Logger::parse_logger" =>
        /\ last.ret.tag = "panic" <=> StdErrors(pre) # {}
        /\ last.ret.tag = "panic" <=> ErrorCalls # {}
        /\ Len(cb) = Len(pre.log)
        /\ Len(cb) = Len(order) + 1
        /\ cb[1] = Line("println", "[MARKER]", INIT_MARK, None)
        /\ \A i \in 1..Len(cb) :
             /\ cb[i].message = pre.log[i]
             /\ cb[i].prefix =
                  (IF pre.log_type[i] = "Marker" THEN "[MARKER]"
                   ELSE IF pre.log_type[i] = "Log" THEN "[LOG]"
                   ELSE IF pre.log_type[i] = "Warning" THEN "[WARNING]"
                   ELSE "[ERROR]")
             /\ pre.log_type[i] # "Marker" => cb[i].id = Some(pre.log_id[i])
             /\ i > 1 => pre.log_type[i] = KindOf(
                            IF order[i - 1].op = "Logger::add_marker" THEN "add_marker"
                            ELSE IF order[i - 1].op = "Logger::add_log" THEN "add_log"
                            ELSE IF order[i - 1].op = "Logger::add_warning" THEN "add_warning"
                            ELSE "add_error")
        /\ last.ret.tag = "panic" =>
             /\ last.ret = Panic(pre.log[Max(StdErrors(pre))],
                                 pre.log_id[Max(StdErrors(pre))])
             /\ last.ret.val = order[Max(ErrorCalls)].id.val
        /\ last.ret.tag # "panic" => last.ret = Returned

C13_Witness ==
    /\ last.op = "Logger::parse_logger"
    /\ Len(order) = 3
    /\ order[1].op = "Logger::add_error" /\ order[1].id = Some(1)
    /\ order[2].op = "Logger::add_error" /\ order[2].id = Some(0)
    /\ order[3].op = "Logger::add_warning"
    /\ last.ret = Panic(TEST_ERROR, 0)
    /\ Len(cb) = 4

\* the workers that have made their append
Appended == {t \in Workers : pc[t] \notin {"unspawned", "start", "locked"}}
\* the messages sent so far
Sent == Len(chan) + (IF got[Owner].tag = "Received" THEN 1 ELSE 0)
\* a Logger holding the initial marker and k entries of add_log(TEST_LOG, TEST_LOG_ID)
MarkerAndLogs(k) ==
    [ log      |-> [i \in 1..(k + 1) |-> IF i = 1 THEN INIT_MARK ELSE TEST_LOG],
      log_id   |-> [i \in 1..(k + 1) |-> IF i = 1 THEN INIT_MARK_ID ELSE TEST_LOG_ID],
      log_type |-> [i \in 1..(k + 1) |-> IF i = 1 THEN "Marker" ELSE "Log"] ]

C14_Safe ==
    /\ pc[Owner] # "finished" => ENABLED NextStdMT
    /\ Sent <= 1
    /\ logger = MarkerAndLogs(Cardinality(Appended))
    /\ pc[Owner] \in {"join", "finished"} =>
         /\ Sent = 1
         /\ got[Owner].tag = "Received"
         /\ got[Owner].val.logger = MarkerAndLogs(n)
    /\ pc[Owner] = "finished" =>
         /\ \A t \in Workers : pc[t] = "joined"
         /\ lock = 0 /\ data.lock = 0
         /\ data.val = n
         /\ logger = MarkerAndLogs(n)
         /\ chan = <<>>

\* C14 (multi-threaded append protocol): at every moment before the test has
\* finished some thread can take a step (no deadlock), at most one message
\* is ever sent and the logger holds the initial marker and one Log entry
\* for each thread that has appended; the receive of the owner eventually
\* returns and the test eventually finishes, with every thread joined,
\* exactly one message sent, both locks free and the initial marker plus n
\* Log entries in the logger.
C14_Protocol ==
    /\ []C14_Safe
    /\ <>(got[Owner].tag = "Received")
    /\ <>(pc[Owner] = "finished")

C14_Witness ==
    /\ pc[Owner] = "finished"
    /\ got[Owner].tag = "Received"
    /\ got[Owner].val.from = 1
    /\ Len(logger.log) = n + 1

====
